---- MODULE Spec2Model ----
(***************************************************************************)
(* A model of the 2048 board engine of nctfe (src/tfe_base.py): the board  *)
(* TFEBoard with its fields n, score, squares and the four direction line  *)
(* sequences, the spawn add_random, the line operation sift, the turn      *)
(* sift_all and the four moves up, down, left and right.                   *)
(*                                                                         *)
(* squares is a function 0..n*n-1 -> Int (row-major, as the Python list);  *)
(* a line (a Python range) is a sequence of cell indices, wall first.      *)
(***************************************************************************)
EXTENDS Integers, Sequences, FiniteSets, TLC

VARIABLES n, score, squares, up_seq, down_seq, left_seq, right_seq,
          status, op, ret, pre, spawn

vars == <<n, score, squares, up_seq, down_seq, left_seq, right_seq,
          status, op, ret, pre, spawn>>

(***************************************************************************)
(* Bounds of the exploration.                                              *)
(***************************************************************************)
\* largest board side explored
MaxN == 3
\* a board of side m is moved while (m - 1)^2 times the sum of its tiles is
\* below MaxSum: a move on a larger board has more outcomes and is explored less deep
MaxSum == 40
\* longest single line drawn in LineSpec
MaxLen == 4
\* largest tile exponent drawn in LineSpec: tiles 2^1 .. 2^MaxExp
MaxExp == 4

(***************************************************************************)
(* Python helpers.                                                         *)
(***************************************************************************)
\* range(start, stop, step) for step > 0, as a sequence
PyRange(start, stop, step) ==
    [k \in 1..(IF stop > start THEN (stop - start + step - 1) \div step ELSE 0)
        |-> start + (k - 1) * step]

\* r[::-1]
Reversed(r) == [k \in 1..Len(r) |-> r[Len(r) + 1 - k]]

\* [0] * n ** 2
Zeros(m) == [i \in 0..(m * m - 1) |-> 0]

RECURSIVE Pow2(_)
Pow2(e) == IF e = 0 THEN 1 ELSE 2 * Pow2(e - 1)

\* the four line sequences built by __init__
UpSeq(m) == [i \in 1..m |-> PyRange(i - 1, m * m, m)]
\* faulty variant of DownSeq: the [::-1] forgotten
DownSeq_NotReversed(m) == UpSeq(m)

DownSeq(m) == [i \in 1..m |-> Reversed(UpSeq(m)[i])]
LeftSeq(m) == [i \in 1..m |-> PyRange((i - 1) * m, (i - 1) * m + m, 1)]
RightSeq(m) == [i \in 1..m |-> Reversed(LeftSeq(m)[i])]

(***************************************************************************)
(* add_random: the outcomes of one spawn on the cells sq.  An outcome      *)
(* either raises GameOver (no cell is empty) or fills one empty cell with  *)
(* 2 (random() < 0.9) or 4.                                                *)
(***************************************************************************)
Available(sq) == {i \in DOMAIN sq : sq[i] = 0}

\* faulty variant of AddRandomOutcomes: no test for empty cells, the tile is
\* written to a cell chosen among all the cells
AddRandomOutcomes_AnyCell(sq) ==
    {[raised |-> FALSE, squares |-> [sq EXCEPT ![loc] = v], at |-> <<<<loc, v>>>>]
        : loc \in DOMAIN sq, v \in {2, 4}}

AddRandomOutcomes(sq) ==
    IF Available(sq) = {}
    THEN {[raised |-> TRUE, squares |-> sq, at |-> <<>>]}
    ELSE {[raised |-> FALSE, squares |-> [sq EXCEPT ![loc] = v], at |-> <<<<loc, v>>>>]
            : loc \in Available(sq), v \in {2, 4}}

(***************************************************************************)
(* sift: the loops of TFEBoard.sift over a line seq, on the loop state     *)
(* st = [squares, score, any_moved].                                       *)
(***************************************************************************)
\* faulty variants of MergeInto: a merge that does not set any_moved, one that
\* leaves the target undoubled, one that adds the old value to the score
MergeInto_NoFlag(st, step_i, prev_i, sift_square) ==
    [squares |-> [st.squares EXCEPT ![step_i] = sift_square * 2, ![prev_i] = -1],
     score |-> st.score + sift_square * 2,
     any_moved |-> st.any_moved]

MergeInto_NoDouble(st, step_i, prev_i, sift_square) ==
    [squares |-> [st.squares EXCEPT ![step_i] = sift_square, ![prev_i] = -1],
     score |-> st.score + sift_square * 2,
     any_moved |-> TRUE]

MergeInto_HalfScore(st, step_i, prev_i, sift_square) ==
    [squares |-> [st.squares EXCEPT ![step_i] = sift_square * 2, ![prev_i] = -1],
     score |-> st.score + sift_square,
     any_moved |-> TRUE]

\* one merge (lines 105-110): the target doubles, the score grows by the new
\* tile, the cell the tile came from is flagged -1
MergeInto(st, step_i, prev_i, sift_square) ==
    [squares |-> [st.squares EXCEPT ![step_i] = sift_square * 2, ![prev_i] = -1],
     score |-> st.score + sift_square * 2,
     any_moved |-> TRUE]

\* faulty variants of SlideTo: a slide that does not set any_moved, one that
\* does not clear the cell the tile left
SlideTo_NoFlag(st, step_i, prev_i, sift_square) ==
    [squares |-> [st.squares EXCEPT ![step_i] = sift_square, ![prev_i] = 0],
     score |-> st.score,
     any_moved |-> st.any_moved]

SlideTo_NoClear(st, step_i, prev_i, sift_square) ==
    [squares |-> [st.squares EXCEPT ![step_i] = sift_square],
     score |-> st.score,
     any_moved |-> TRUE]

\* one slide (lines 99-101): the tile moves from prev_i to step_i
SlideTo(st, step_i, prev_i, sift_square) ==
    [squares |-> [st.squares EXCEPT ![step_i] = sift_square, ![prev_i] = 0],
     score |-> st.score,
     any_moved |-> TRUE]

\* faulty variant of SiftInner: no break at the -1 flag (line 102-103), so a
\* tile slides over the flag and can merge into the tile merged before it
RECURSIVE SiftInner_Chain(_, _, _, _, _)
SiftInner_Chain(st, seq, k, prev_i, sift_square) ==
    IF k = 0 THEN st
    ELSE LET step_i == seq[k]
             target_square == st.squares[step_i]
         IN IF target_square <= 0
            THEN SiftInner_Chain(SlideTo(st, step_i, prev_i, sift_square),
                                 seq, k - 1, step_i, sift_square)
            ELSE IF target_square = sift_square
                 THEN MergeInto(st, step_i, prev_i, sift_square)
                 ELSE st

\* the inner loop (lines 96-112) from position k of seq down to the wall
RECURSIVE SiftInner(_, _, _, _, _)
SiftInner(st, seq, k, prev_i, sift_square) ==
    IF k = 0 THEN st
    ELSE LET step_i == seq[k]
             target_square == st.squares[step_i]
         IN IF target_square <= 0
            THEN LET moved == SlideTo(st, step_i, prev_i, sift_square)
                 IN IF target_square = -1 THEN moved
                    ELSE SiftInner(moved, seq, k - 1, step_i, sift_square)
            ELSE IF target_square = sift_square
                 THEN MergeInto(st, step_i, prev_i, sift_square)
                 ELSE st

\* the outer loop (lines 90-112) from position ind of seq to its end
RECURSIVE SiftOuter(_, _, _)
SiftOuter(st, seq, ind) ==
    IF ind > Len(seq) THEN st
    ELSE LET i == seq[ind]
             sift_square == st.squares[i]
         IN SiftOuter(IF sift_square # 0
                      THEN SiftInner(st, seq, ind - 1, i, sift_square)
                      ELSE st,
                      seq, ind + 1)

\* faulty variant of CleanUp: the -1 flags are left on the line
CleanUp_Skipped(sq, seq) == sq

\* the clean-up loop (lines 114-116)
CleanUp(sq, seq) ==
    [j \in DOMAIN sq |->
        IF (\E k \in 1..Len(seq) : seq[k] = j) /\ sq[j] = -1 THEN 0 ELSE sq[j]]

\* sift(seq) on the board (sq, sc): the cells and score it leaves, and what it returns
Sift(sq, sc, seq) ==
    CHOOSE r \in
        {[squares |-> CleanUp(st.squares, seq), score |-> st.score,
          any_moved |-> st.any_moved]
            : st \in {SiftOuter([squares |-> sq, score |-> sc, any_moved |-> FALSE],
                                seq, 1)}} : TRUE

(***************************************************************************)
(* sift_all before its spawn: every line of seqs is sifted in turn.        *)
(***************************************************************************)
\* faulty variant of SiftNext: any_moved = self.sift(seq), the earlier lines forgotten
SiftNext_LastOnly(acc, seq) ==
    LET r == Sift(acc.squares, acc.score, seq)
    IN [squares |-> r.squares, score |-> r.score, any_moved |-> r.any_moved]

\* any_moved = self.sift(seq) or any_moved (line 130)
SiftNext(acc, seq) ==
    CHOOSE t \in
        {[squares |-> r.squares, score |-> r.score,
          any_moved |-> (r.any_moved \/ a.any_moved)]
            : <<a, r>> \in {<<b, Sift(b.squares, b.score, seq)>> : b \in {acc}}} : TRUE

\* faulty variant of SiftLines: the loop stops at the first line that moved
RECURSIVE SiftLines_ShortCircuit(_, _, _)
SiftLines_ShortCircuit(acc, seqs, k) ==
    IF k > Len(seqs) \/ acc.any_moved THEN acc
    ELSE SiftLines_ShortCircuit(SiftNext(acc, seqs[k]), seqs, k + 1)

\* for seq in seqs (lines 128-130)
RECURSIVE SiftLines(_, _, _)
SiftLines(acc, seqs, k) ==
    IF k > Len(seqs) THEN acc
    ELSE SiftLines(SiftNext(acc, seqs[k]), seqs, k + 1)

SiftPhase(sq, sc, seqs) ==
    SiftLines([squares |-> sq, score |-> sc, any_moved |-> FALSE], seqs, 1)

(***************************************************************************)
(* Measures of a board.                                                    *)
(***************************************************************************)
RECURSIVE SumUpTo(_, _)
SumUpTo(sq, m) == IF m < 0 THEN 0 ELSE sq[m] + SumUpTo(sq, m - 1)

TileSum(sq) == SumUpTo(sq, Cardinality(DOMAIN sq) - 1)

TileCount(sq) == Cardinality({i \in DOMAIN sq : sq[i] # 0})

Dirs == {"up", "down", "left", "right"}

SeqsOf(d) ==
    CASE d = "up" -> up_seq
      [] d = "down" -> down_seq
      [] d = "left" -> left_seq
      [] d = "right" -> right_seq

NoBoard == [squares |-> <<>>, score |-> 0]

(***************************************************************************)
(* The program: the board is constructed for the side n given on the       *)
(* command line, then moved by the player's keys.                          *)
(***************************************************************************)
Init ==
    /\ n \in 1..MaxN
    /\ score = 0
    /\ squares = <<>>
    /\ up_seq = <<>> /\ down_seq = <<>> /\ left_seq = <<>> /\ right_seq = <<>>
    /\ status = "new"
    /\ op = "none"
    /\ ret = FALSE
    /\ pre = NoBoard
    /\ spawn = <<>>

\* TFEBoard.__init__(n): zeroed cells, the line sequences, two spawns
Construct ==
    /\ status = "new"
    /\ n' = n
    /\ score' = 0
    /\ up_seq' = UpSeq(n) /\ down_seq' = DownSeq(n)
    /\ left_seq' = LeftSeq(n) /\ right_seq' = RightSeq(n)
    /\ op' = "init"
    /\ ret' = FALSE
    /\ pre' = [squares |-> Zeros(n), score |-> 0]
    /\ \E o1 \in AddRandomOutcomes(Zeros(n)) :
         IF o1.raised
         THEN /\ squares' = o1.squares /\ spawn' = o1.at /\ status' = "raised"
         ELSE \E o2 \in AddRandomOutcomes(o1.squares) :
                /\ squares' = o2.squares
                /\ spawn' = o1.at \o o2.at
                /\ status' = IF o2.raised THEN "raised" ELSE "playing"

\* sift_all(seqs): the sift phase, then one spawn if anything moved
sift_all(d, seqs) ==
    LET r == SiftPhase(squares, score, seqs)
    IN /\ op' = d
       /\ pre' = [squares |-> squares, score |-> score]
       /\ score' = r.score
       /\ ret' = r.any_moved
       /\ IF r.any_moved
          THEN \E o \in AddRandomOutcomes(r.squares) :
                 /\ squares' = o.squares
                 /\ spawn' = o.at
                 /\ status' = IF o.raised THEN "raised" ELSE status
          ELSE /\ squares' = r.squares
               /\ spawn' = <<>>
               /\ status' = status
       /\ UNCHANGED <<n, up_seq, down_seq, left_seq, right_seq>>

\* a move is a key press on a constructed board; see MaxSum
CanMove ==
    /\ status = "playing"
    /\ TileSum(squares) * (n - 1) * (n - 1) < MaxSum

up == CanMove /\ sift_all("up", up_seq)

down == CanMove /\ sift_all("down", down_seq)

left == CanMove /\ sift_all("left", left_seq)

right == CanMove /\ sift_all("right", right_seq)

Next == Construct \/ up \/ down \/ left \/ right

Spec == Init /\ [][Next]_vars

(***************************************************************************)
(* The engine as its callers may use it: the four moves and, called        *)
(* directly as the demonstration of tfe_base.py does, the spawn.           *)
(***************************************************************************)
\* board.add_random() called by the owner of the board
add_random ==
    /\ CanMove
    /\ op' = "add_random"
    /\ pre' = [squares |-> squares, score |-> score]
    /\ ret' = FALSE
    /\ \E o \in AddRandomOutcomes(squares) :
         /\ squares' = o.squares
         /\ spawn' = o.at
         /\ status' = IF o.raised THEN "raised" ELSE status
    /\ UNCHANGED <<n, score, up_seq, down_seq, left_seq, right_seq>>

ApiNext == Next \/ add_random

ApiSpec == Init /\ [][ApiNext]_vars

(***************************************************************************)
(* The auto-play driver of nctfe.py (main, --auto): each cycle of the      *)
(* chunk loop calls the moves in a fixed order until one returns true;     *)
(* when none does, the loop is left and the game-over screen is shown.     *)
(* The board is of side 2, the side whose games are explored to their end. *)
(***************************************************************************)
\* faulty variant of AutoOrder: the order of the keys H, J, K, L
AutoOrder_Keys == <<"left", "down", "up", "right">>

\* [board.left, board.up, board.right, board.down] (line 99)
AutoOrder == <<"left", "up", "right", "down">>

\* for move in [...]: if move(): break (lines 99-104), before the spawn of the
\* move that returned true: the moves from position k of AutoOrder on; r is
\* what the k-th move leaves, bound once
RECURSIVE AutoTry(_, _, _)
AutoTry(sq, sc, k) ==
    CHOOSE t \in
        {IF r.any_moved \/ k = Len(AutoOrder)
         THEN [squares |-> r.squares, score |-> r.score,
               moved |-> r.any_moved, dir |-> AutoOrder[k]]
         ELSE AutoTry(r.squares, r.score, k + 1)
            : r \in {SiftPhase(sq, sc, SeqsOf(AutoOrder[k]))}} : TRUE

\* the board size given to the driver (argument n): the side whose games are
\* explored to their end
AutoSide == 2

AutoInit ==
    /\ n = AutoSide
    /\ score = 0
    /\ squares = <<>>
    /\ up_seq = <<>> /\ down_seq = <<>> /\ left_seq = <<>> /\ right_seq = <<>>
    /\ status = "new"
    /\ op = "none"
    /\ ret = FALSE
    /\ pre = NoBoard
    /\ spawn = <<>>

\* one cycle of the chunk loop (lines 98-106)
AutoCycle ==
    /\ status = "playing"
    /\ \E t \in {AutoTry(squares, score, 1)} :
          /\ op' = t.dir
          /\ pre' = [squares |-> squares, score |-> score]
          /\ score' = t.score
          /\ ret' = t.moved
          /\ IF t.moved
             THEN \E o \in AddRandomOutcomes(t.squares) :
                    /\ squares' = o.squares
                    /\ spawn' = o.at
                    /\ status' = IF o.raised THEN "raised" ELSE status
             ELSE /\ squares' = t.squares
                  /\ spawn' = <<>>
                  /\ status' = "stopped"
    /\ UNCHANGED <<n, up_seq, down_seq, left_seq, right_seq>>

AutoNext == Construct \/ AutoCycle

\* with nodelay(True) getch never blocks: the loop keeps cycling
AutoSpec == AutoInit /\ [][AutoNext]_vars /\ WF_vars(AutoNext)

(***************************************************************************)
(* sift as a function of one line: the board is a single line of 1..MaxLen *)
(* cells holding 0 or a tile 2^1..2^MaxExp, sifted toward its first cell   *)
(* (left_seq) or toward its last cell (right_seq).                         *)
(***************************************************************************)
LineVals == {0} \cup {Pow2(e) : e \in 1..MaxExp}

LineInit ==
    /\ n \in 1..MaxLen
    /\ squares \in [0..(n - 1) -> LineVals]
    /\ score = 0
    /\ up_seq = <<>> /\ down_seq = <<>>
    /\ left_seq = <<PyRange(0, n, 1)>>
    /\ right_seq = <<Reversed(PyRange(0, n, 1))>>
    /\ status = "line"
    /\ op = "none"
    /\ ret = FALSE
    /\ pre = NoBoard
    /\ spawn = <<>>

\* one call sift(seq), with seq the line in the order of direction d
sift(d, seq) ==
    LET r == Sift(squares, score, seq)
    IN /\ status = "line"
       /\ op' = d
       /\ pre' = [squares |-> squares, score |-> score]
       /\ squares' = r.squares
       /\ score' = r.score
       /\ ret' = r.any_moved
       /\ UNCHANGED <<n, up_seq, down_seq, left_seq, right_seq, status, spawn>>

sift_left == sift("left", left_seq[1])

sift_right == sift("right", right_seq[1])

LineNext == sift_left \/ sift_right

LineSpec == LineInit /\ [][LineNext]_vars

(***************************************************************************)
(* The reference 2048 line result, written from the rules of the game and  *)
(* not from the loops of sift: drop the zeros, merge equal neighbours once *)
(* from the wall, pad with zeros.                                          *)
(***************************************************************************)
\* the values of the cells sq along the line seq, wall first
LineOf(sq, seq) == [k \in 1..Len(seq) |-> sq[seq[k]]]

\* the cells 0..Len(s)-1 holding the values s
Cells(s) == [i \in 0..(Len(s) - 1) |-> s[i + 1]]

RECURSIVE DropZeros(_)
DropZeros(v) ==
    IF v = <<>> THEN <<>>
    ELSE IF Head(v) = 0 THEN DropZeros(Tail(v))
         ELSE <<Head(v)>> \o DropZeros(Tail(v))

RECURSIVE MergePairs(_)
MergePairs(t) ==
    IF Len(t) = 0 THEN <<>>
    ELSE IF Len(t) >= 2 /\ t[1] = t[2]
         THEN <<2 * t[1]>> \o MergePairs(Tail(Tail(t)))
         ELSE <<t[1]>> \o MergePairs(Tail(t))

RECURSIVE MergeGain(_)
MergeGain(t) ==
    IF Len(t) = 0 THEN 0
    ELSE IF Len(t) >= 2 /\ t[1] = t[2]
         THEN 2 * t[1] + MergeGain(Tail(Tail(t)))
         ELSE MergeGain(Tail(t))

RefLine(v) ==
    LET m == MergePairs(DropZeros(v))
    IN [k \in 1..Len(v) |-> IF k <= Len(m) THEN m[k] ELSE 0]

RefGain(v) == MergeGain(DropZeros(v))

RefMerges(v) == Len(DropZeros(v)) - Len(MergePairs(DropZeros(v)))

\* the reference over all the lines of one direction
RECURSIVE RefGainAll(_, _, _)
RefGainAll(sq, seqs, k) ==
    IF k > Len(seqs) THEN 0
    ELSE RefGain(LineOf(sq, seqs[k])) + RefGainAll(sq, seqs, k + 1)

RECURSIVE RefMergesAll(_, _, _)
RefMergesAll(sq, seqs, k) ==
    IF k > Len(seqs) THEN 0
    ELSE RefMerges(LineOf(sq, seqs[k])) + RefMergesAll(sq, seqs, k + 1)

\* t is packed against the wall and no two neighbouring tiles are equal
PackedNoEqual(v) ==
    \A k \in 1..(Len(v) - 1) :
        /\ v[k] = 0 => v[k + 1] = 0
        /\ v[k] # 0 => v[k + 1] # v[k]

\* r comes from the tiles o by merging disjoint pairs of equal neighbours of o,
\* every tile of o in at most one pair
RECURSIVE Derivable(_, _)
Derivable(o, r) ==
    IF Len(o) = 0 THEN Len(r) = 0
    ELSE /\ Len(r) > 0
         /\ \/ r[1] = o[1] /\ Derivable(Tail(o), Tail(r))
            \/ /\ Len(o) >= 2 /\ o[1] = o[2] /\ r[1] = 2 * o[1]
               /\ Derivable(Tail(Tail(o)), Tail(r))

\* the last operation was a move (in LineSpec: a sift of the line)
Moved == op \in Dirs

\* the board the last move left before its spawn
BeforeSpawn ==
    IF Len(spawn) = 1 THEN [squares EXCEPT ![spawn[1][1]] = 0] ELSE squares

\* what each move would return on the current board
WouldMove(d) == SiftPhase(squares, score, SeqsOf(d)).any_moved

AllMovesFalse == \A d \in Dirs : ~WouldMove(d)

\* cells side by side in a row or one above the other in a column
Adjacent(i, j) ==
    \/ i \div n = j \div n /\ j = i + 1
    \/ j = i + n

NoEqualNeighbours(sq) ==
    \A i, j \in DOMAIN sq : (Adjacent(i, j) /\ sq[i] # 0) => sq[i] # sq[j]

(***************************************************************************)
(* C1.  A move that returns false leaves every cell and the score as they  *)
(* were before the call, and spawns nothing.                               *)
(***************************************************************************)
C1_FalseMoveChangesNothing ==
    (Moved /\ ret = FALSE) =>
        /\ squares = pre.squares
        /\ score = pre.score
        /\ spawn = <<>>
        /\ status = "playing"

\* a move returned false on a board that holds three tiles or more
C1_Witness ==
    Moved /\ ret = FALSE /\ status = "playing" /\ TileCount(pre.squares) >= 3

(***************************************************************************)
(* C2.  sift returns true exactly when the cells of the line differ from   *)
(* what they were before the call; a line packed against the wall with no  *)
(* two equal neighbours is left as it is and sift returns false.           *)
(***************************************************************************)
C2_ReturnsWhetherChanged ==
    Moved =>
        LET before == LineOf(pre.squares, SeqsOf(op)[1])
        IN /\ ret = (squares # pre.squares)
           /\ PackedNoEqual(before) => (ret = FALSE /\ squares = pre.squares)

\* [2, 4, 8, 16] sifted toward index 0: unchanged, false
C2_Witness ==
    /\ op = "left"
    /\ pre.squares = Cells(<<2, 4, 8, 16>>)
    /\ squares = Cells(<<2, 4, 8, 16>>)
    /\ ret = FALSE

(***************************************************************************)
(* C3.  sift leaves on the line exactly the reference 2048 result (zeros   *)
(* dropped, equal neighbours merged once from the wall, zeros padded),     *)
(* adds the merged tiles to the score and returns whether that result      *)
(* differs from the line it was given.                                     *)
(***************************************************************************)
C3_SiftIsReference ==
    Moved =>
        LET seq == SeqsOf(op)[1]
            before == LineOf(pre.squares, seq)
        IN /\ LineOf(squares, seq) = RefLine(before)
           /\ score = pre.score + RefGain(before)
           /\ ret = (RefLine(before) # before)

\* [2, 2, 0, 2] sifted toward index 0: [4, 2, 0, 0], true, score + 4
C3_Witness ==
    /\ op = "left"
    /\ pre.squares = Cells(<<2, 2, 0, 2>>)
    /\ squares = Cells(<<4, 2, 0, 0>>)
    /\ ret = TRUE
    /\ score = pre.score + 4

(***************************************************************************)
(* C4.  In one sift every tile takes part in at most one merge: the tiles  *)
(* left on the line are the original tiles in order, with disjoint pairs   *)
(* of equal neighbours replaced by one tile of twice the value; so every   *)
(* tile left is an original value or twice one.                            *)
(***************************************************************************)
C4_OneMergePerTile ==
    Moved =>
        LET seq == SeqsOf(op)[1]
            before == LineOf(pre.squares, seq)
            after == LineOf(squares, seq)
        IN /\ Derivable(DropZeros(before), DropZeros(after))
           /\ \A k \in 1..Len(after) :
                after[k] # 0 =>
                    \E j \in 1..Len(before) :
                        before[j] # 0 /\ after[k] \in {before[j], 2 * before[j]}

\* [2, 2, 4, 0] sifted toward index 0: [4, 4, 0, 0], the new 4 does not merge again
C4_Witness ==
    /\ op = "left"
    /\ pre.squares = Cells(<<2, 2, 4, 0>>)
    /\ squares = Cells(<<4, 4, 0, 0>>)

(***************************************************************************)
(* C5.  As claimed: after a move that returns true the number of nonzero   *)
(* cells is one more than before the call, or the same as before.          *)
(***************************************************************************)
C5_Original ==
    (Moved /\ ret = TRUE) =>
        TileCount(squares) \in {TileCount(pre.squares), TileCount(pre.squares) + 1}

(***************************************************************************)
(* C5, amended.  After a move that returns true the number of nonzero      *)
(* cells is the number before the call, less one for every pair merged by  *)
(* the move, plus one for the spawn: at most one more than before, and     *)
(* fewer than before when two or more pairs merged.                        *)
(***************************************************************************)
C5_CountLessMergesPlusSpawn ==
    (Moved /\ ret = TRUE) =>
        /\ Len(spawn) = 1
        /\ TileCount(squares) =
             (TileCount(pre.squares) - RefMergesAll(pre.squares, SeqsOf(op), 1)) + 1
        /\ TileCount(squares) <= TileCount(pre.squares) + 1

\* a move merged two pairs or more: fewer tiles than before, spawn included
C5_Witness ==
    Moved /\ ret = TRUE /\ TileCount(squares) < TileCount(pre.squares)

(***************************************************************************)
(* C6.  The sift phase of every move keeps the sum of the cells; a move    *)
(* that returns true adds the spawned value, 2 or 4, to the sum, and a     *)
(* move that returns false leaves the sum as it was.                       *)
(***************************************************************************)
C6_SumGrowsOnlyBySpawn ==
    /\ status = "playing" =>
         \A d \in Dirs : \A r \in {SiftPhase(squares, score, SeqsOf(d))} :
            TileSum(r.squares) = TileSum(squares)
    /\ (Moved /\ ret = TRUE) =>
         /\ Len(spawn) = 1
         /\ spawn[1][2] \in {2, 4}
         /\ TileSum(squares) = TileSum(pre.squares) + spawn[1][2]
    /\ (Moved /\ ret = FALSE) => TileSum(squares) = TileSum(pre.squares)

\* a move merged (the score grew) and a 4 was spawned
C6_Witness ==
    /\ Moved /\ ret = TRUE
    /\ score > pre.score
    /\ Len(spawn) = 1 /\ spawn[1][2] = 4
    /\ TileSum(squares) = TileSum(pre.squares) + 4

(***************************************************************************)
(* C7.  The score never decreases: a move adds to it exactly the values of *)
(* the tiles its merges create (2v for each merge of two tiles v), a move  *)
(* that returns false and the spawns of the construction add nothing.      *)
(***************************************************************************)
C7_ScoreGrowsByMerges ==
    /\ score >= 0
    /\ Moved =>
         /\ score = pre.score + RefGainAll(pre.squares, SeqsOf(op), 1)
         /\ score >= pre.score
         /\ ret = FALSE => score = pre.score
    /\ op = "init" => (score = 0 /\ pre.score = 0)

\* one move merged in two lines, or made a tile of 8 or more
C7_Witness ==
    Moved /\ ret = TRUE /\ score >= pre.score + 8

(***************************************************************************)
(* C8.  On every board reached with n >= 2, all four moves return false    *)
(* exactly when no cell is empty and no two cells next to each other in a  *)
(* row or a column hold the same value.                                    *)
(***************************************************************************)
C8_GameOverIffFullAndNoEqualNeighbours ==
    (status # "new" /\ n >= 2) =>
        (AllMovesFalse <=> (Available(squares) = {} /\ NoEqualNeighbours(squares)))

\* a game-over board was reached
C8_Witness ==
    status = "playing" /\ n >= 2 /\ AllMovesFalse /\ Available(squares) = {}

(***************************************************************************)
(* C9.  As claimed: a move on a board that has an empty cell never returns *)
(* false.                                                                  *)
(***************************************************************************)
C9_Original ==
    (Moved /\ Available(pre.squares) # {}) => ret = TRUE

(***************************************************************************)
(* C9, amended.  On a board reached in play that has an empty cell, at     *)
(* least one of the four moves returns true (not all four return false);   *)
(* a single direction may return false.                                    *)
(***************************************************************************)
C9_SomeMoveEffective ==
    (status = "playing" /\ Available(squares) # {}) => \E d \in Dirs : WouldMove(d)

\* a move returned false on a board with an empty cell, where another move is effective
C9_Witness ==
    /\ Moved /\ ret = FALSE /\ status = "playing"
    /\ Available(squares) # {}
    /\ \E d \in Dirs : WouldMove(d)

(***************************************************************************)
(* C10.  As claimed: for every n >= 1 the construction completes without   *)
(* raising and leaves n*n cells, exactly two of them nonzero (2 or 4),     *)
(* and score 0.                                                            *)
(***************************************************************************)
C10_ConstructNeverFails ==
    op = "init" =>
        /\ status = "playing"
        /\ DOMAIN squares = 0..(n * n - 1)
        /\ TileCount(squares) = 2
        /\ \A i \in DOMAIN squares : squares[i] \in {0, 2, 4}
        /\ score = 0

(***************************************************************************)
(* C11.  In play on a board with n >= 2 no move raises GameOver: whenever  *)
(* the sift phase of a move changes the board, it leaves an empty cell for *)
(* the spawn that follows.                                                 *)
(***************************************************************************)
C11_MoveNeverRaises ==
    n >= 2 =>
        /\ status # "raised"
        /\ (Moved /\ ret = TRUE) =>
             /\ Len(spawn) = 1
             /\ pre.squares # squares
             /\ BeforeSpawn[spawn[1][1]] = 0

\* an effective move was made on a board without an empty cell
C11_Witness ==
    /\ n >= 2 /\ Moved /\ ret = TRUE /\ status = "playing"
    /\ Available(pre.squares) = {}
    /\ Len(spawn) = 1

\* the cells at which two boards differ
Changed(a, b) == {i \in DOMAIN a : a[i] # b[i]}

\* a tile: a power of two, 2 or more
RECURSIVE IsTile(_)
IsTile(v) == v >= 2 /\ (v = 2 \/ (v % 2 = 0 /\ IsTile(v \div 2)))

Spawned == op = "add_random"

(***************************************************************************)
(* C12.  A spawn on a board with an empty cell changes exactly one cell,   *)
(* which was 0, to 2 or 4, and leaves the other cells and the score as     *)
(* they were; with a single empty cell, that cell is filled.               *)
(***************************************************************************)
C12_SpawnFillsOneEmptyCell ==
    (Spawned /\ Available(pre.squares) # {}) =>
        /\ status = "playing"
        /\ score = pre.score
        /\ Cardinality(Changed(pre.squares, squares)) = 1
        /\ \A i \in Changed(pre.squares, squares) :
             /\ pre.squares[i] = 0
             /\ squares[i] \in {2, 4}
             /\ spawn = <<<<i, squares[i]>>>>
        /\ Cardinality(Available(pre.squares)) = 1 => Available(squares) = {}

\* a spawn filled the only empty cell of the board
C12_Witness ==
    /\ Spawned /\ status = "playing"
    /\ Cardinality(Available(pre.squares)) = 1
    /\ Available(squares) = {}

(***************************************************************************)
(* C13.  A spawn on a board without an empty cell raises GameOver and      *)
(* leaves every cell and the score as they were.                           *)
(***************************************************************************)
C13_SpawnOnFullBoardRaises ==
    (Spawned /\ Available(pre.squares) = {}) =>
        /\ status = "raised"
        /\ squares = pre.squares
        /\ score = pre.score
        /\ spawn = <<>>

\* a spawn was called on a full board of side 2 or more
C13_Witness ==
    Spawned /\ n >= 2 /\ Available(pre.squares) = {} /\ status = "raised"

(***************************************************************************)
(* C14.  Between operations every cell is 0 or a power of two that is at   *)
(* least 2; the -1 flag of sift is in no cell once sift has returned, for  *)
(* the moves made and for every line sift could be called on.              *)
(***************************************************************************)
C14_CellsAreZeroOrTiles ==
    status # "new" =>
        /\ \A i \in DOMAIN squares : squares[i] = 0 \/ IsTile(squares[i])
        /\ \A d \in Dirs : \A k \in 1..Len(SeqsOf(d)) :
             \A r \in {Sift(squares, score, SeqsOf(d)[k])} :
                \A i \in DOMAIN squares : r.squares[i] = 0 \/ IsTile(r.squares[i])

\* a move merged two tiles into a tile of 8 or more
C14_Witness ==
    /\ Moved /\ ret = TRUE /\ score > pre.score
    /\ \E i \in DOMAIN squares : squares[i] >= 8 /\ squares[i] \notin {pre.squares[j] : j \in DOMAIN pre.squares}

\* the reference result of a whole direction: every line replaced by its
\* reference line result, the lines taken independently of each other
RefBoard(sq, seqs) ==
    [j \in DOMAIN sq |->
        IF \E k \in 1..Len(seqs) : \E p \in 1..Len(seqs[k]) : seqs[k][p] = j
        THEN LET k == CHOOSE k \in 1..Len(seqs) : \E p \in 1..Len(seqs[k]) : seqs[k][p] = j
                 p == CHOOSE p \in 1..Len(seqs[k]) : seqs[k][p] = j
             IN RefLine(LineOf(sq, seqs[k]))[p]
        ELSE sq[j]]

\* the lines of seqs that the reference result changes on the board sq
LinesChanged(sq, seqs) ==
    {k \in 1..Len(seqs) : RefLine(LineOf(sq, seqs[k])) # LineOf(sq, seqs[k])}

(***************************************************************************)
(* C16.  A move sifts every line of its direction, also after a line has   *)
(* reported a change: the board before the spawn is the reference line     *)
(* result of each of the n lines, and the sift of one line leaves the      *)
(* cells outside that line as they were.                                   *)
(***************************************************************************)
C16_EveryLineSifted ==
    /\ Moved =>
         /\ BeforeSpawn = RefBoard(pre.squares, SeqsOf(op))
         /\ ret = (LinesChanged(pre.squares, SeqsOf(op)) # {})
    /\ Moved =>
         \A k \in 1..Len(SeqsOf(op)) :
            \A r \in {Sift(pre.squares, pre.score, SeqsOf(op)[k])} :
               \A i \in DOMAIN pre.squares :
                  (\A p \in 1..n : SeqsOf(op)[k][p] # i) => r.squares[i] = pre.squares[i]

\* a move changed its first line and a later line too
C16_Witness ==
    /\ Moved /\ ret = TRUE /\ status = "playing"
    /\ 1 \in LinesChanged(pre.squares, SeqsOf(op))
    /\ Cardinality(LinesChanged(pre.squares, SeqsOf(op))) >= 2

\* the lines seqs are n lines of n cells and every cell is in exactly one of them
Partitions(seqs) ==
    /\ Len(seqs) = n
    /\ \A k \in 1..n : Len(seqs[k]) = n
    /\ \A j \in 0..(n * n - 1) :
         Cardinality({kp \in (1..n) \X (1..n) : seqs[kp[1]][kp[2]] = j}) = 1

\* the cell of row r and column c of the row-major grid (both from 0)
CellAt(r, c) == r * n + c

\* each direction: one line per column (up, down) or per row (left, right),
\* starting at the wall the move slides toward
LinesFromWall ==
    /\ Partitions(up_seq) /\ Partitions(down_seq)
    /\ Partitions(left_seq) /\ Partitions(right_seq)
    /\ \A k, p \in 1..n :
         /\ up_seq[k][p] = CellAt(p - 1, k - 1)
         /\ down_seq[k][p] = CellAt(n - p, k - 1)
         /\ left_seq[k][p] = CellAt(k - 1, p - 1)
         /\ right_seq[k][p] = CellAt(k - 1, n - p)

(***************************************************************************)
(* C17.  For every n >= 1 and each direction the n lines partition the     *)
(* cells 0..n*n-1, each line is a column (up, down) or a row (left, right) *)
(* of the grid in the order that starts at the wall of the move, and no    *)
(* move or spawn changes n or the four line sequences.                     *)
(***************************************************************************)
C17_LinesPartitionAndNeverChange ==
    /\ [](status # "new" => LinesFromWall)
    /\ [][status # "new" =>
            UNCHANGED <<n, up_seq, down_seq, left_seq, right_seq>>]_vars

\* an effective move was made on a board of side 3, the lines as constructed
C17_Witness ==
    /\ n = 3 /\ Moved /\ ret = TRUE /\ status = "playing"
    /\ down_seq[1] = <<6, 3, 0>>
    /\ right_seq[3] = <<8, 7, 6>>

\* the order of the claim: Left, Up, Right, Down
PriorityOrder == <<"left", "up", "right", "down">>

\* the move d would change the board sq, by the reference line result
RefWouldMove(sq, d) == LinesChanged(sq, SeqsOf(d)) # {}

(***************************************************************************)
(* C18.  Each cycle of the auto-play driver performs the first of Left,    *)
(* Up, Right, Down that returns true and nothing else; the driver stops    *)
(* exactly when all four return false in one cycle, and then the board is  *)
(* in the game-over state and the cycle changed neither board nor score.   *)
(***************************************************************************)
C18_AutoPlayFirstEffectiveMove ==
    /\ (Moved /\ ret = TRUE) =>
         /\ status = "playing"
         /\ \E k \in 1..4 :
              /\ op = PriorityOrder[k]
              /\ RefWouldMove(pre.squares, op)
              /\ \A j \in 1..(k - 1) : ~RefWouldMove(pre.squares, PriorityOrder[j])
         /\ Len(spawn) = 1
         /\ BeforeSpawn = RefBoard(pre.squares, SeqsOf(op))
         /\ score = pre.score + RefGainAll(pre.squares, SeqsOf(op), 1)
    /\ (Moved /\ ret = FALSE) =>
         /\ status = "stopped"
         /\ \A d \in Dirs : ~RefWouldMove(pre.squares, d)
         /\ squares = pre.squares /\ score = pre.score /\ spawn = <<>>
    /\ status = "stopped" =>
         /\ Moved /\ ret = FALSE
         /\ AllMovesFalse
         /\ Available(squares) = {} /\ NoEqualNeighbours(squares)

\* the driver stopped by itself after merging at least once
C18_Witness ==
    status = "stopped" /\ score > 0 /\ AllMovesFalse /\ squares = pre.squares

SiftPrefix(sq, sc, seq, k) ==
    SiftOuter([squares |-> sq, score |-> sc, any_moved |-> FALSE], SubSeq(seq, 1, k), 1)

\* the positions of the line seq that hold the flag -1
SentinelAt(sq, seq) == {p \in 1..Len(seq) : sq[seq[p]] = -1}

\* the steps up to k that merged (the score grew), st the states after each step
MergeSteps(st, k) == {j \in 1..k : st[j].score > st[j - 1].score}

\* the last of the steps up to k that merged
LastMerge(st, k) == CHOOSE j \in MergeSteps(st, k) : \A i \in MergeSteps(st, k) : i <= j

(***************************************************************************)
(* C20.  At every step of the outer loop of a sift pass at most one cell   *)
(* of the line holds -1; it sits right after the tile merged last, at a    *)
(* position already visited, with only zeros between it and the next       *)
(* position to visit; so the cell the outer loop picks next is never -1,   *)
(* and a tile picked while the flag is there lands on the flag and stops:  *)
(* the merged tile and the score stay as they are and no flag is left.     *)
(***************************************************************************)
C20_SentinelDiscipline ==
    Moved =>
      \A seq \in {SeqsOf(op)[1]} :
      \A st \in {[k \in 0..Len(seq) |-> SiftPrefix(pre.squares, pre.score, seq, k)]} :
        /\ CleanUp(st[Len(seq)].squares, seq) = squares
        /\ st[Len(seq)].score = score
        /\ \A k \in 0..Len(seq) :
             /\ Cardinality(SentinelAt(st[k].squares, seq)) <= 1
             /\ \A p \in SentinelAt(st[k].squares, seq) :
                  /\ 2 <= p /\ p <= k
                  /\ MergeSteps(st, k) # {}
                  /\ st[k].squares[seq[p - 1]] =
                        st[LastMerge(st, k)].score - st[LastMerge(st, k) - 1].score
                  /\ \A q \in (p + 1)..k : st[k].squares[seq[q]] = 0
             /\ \A q \in (k + 1)..Len(seq) :
                  st[k].squares[seq[q]] = pre.squares[seq[q]] /\ st[k].squares[seq[q]] >= 0
        /\ \A k \in 0..(Len(seq) - 1) :
             \A p \in SentinelAt(st[k].squares, seq) :
                IF st[k].squares[seq[k + 1]] = 0
                THEN st[k + 1] = st[k]
                ELSE /\ st[k + 1].squares[seq[p]] = st[k].squares[seq[k + 1]]
                     /\ st[k + 1].squares[seq[p - 1]] = st[k].squares[seq[p - 1]]
                     /\ st[k + 1].squares[seq[k + 1]] = 0
                     /\ st[k + 1].score = st[k].score
                     /\ st[k + 1].any_moved
                     /\ SentinelAt(st[k + 1].squares, seq) = {}

\* [2, 2, 0, 2] sifted toward index 0: after two steps the line is [4, -1, 0, 2],
\* and the last tile lands on the flag: [4, 2, 0, 0]
C20_Witness ==
    /\ op = "left"
    /\ pre.squares = Cells(<<2, 2, 0, 2>>)
    /\ SiftPrefix(pre.squares, pre.score, SeqsOf(op)[1], 2).squares = Cells(<<4, -1, 0, 2>>)
    /\ squares = Cells(<<4, 2, 0, 0>>)

====
